---- MODULE Spec2Model ----
(***************************************************************************)
(* Model of the Razer DeathAdder Chroma control driver (src/rzchroma.c).   *)
(*                                                                         *)
(* State: the HID bind/unbind lifecycle of one device (rzchroma_probe,     *)
(* rzchroma_remove), the two sysfs colour attributes, and a set of threads *)
(* that write to those attributes (write_attr).  write_attr is split at    *)
(* its blocking call (usb_control_msg) and at kfree, probe and remove at   *)
(* every call into the HID / driver core, so that writes interleave with   *)
(* each other and with bind and unbind.                                    *)
(*                                                                         *)
(* A second specification, SpecCrc, exercises the pure function report_crc *)
(* on pairs of reports that differ in one byte.                            *)
(***************************************************************************)
EXTENDS Integers, Sequences, FiniteSets, TLC

\* ------------------------------------------------------------------ bounds
\* get_random_bytes is sampled at MaxTidSample + 1 values of 0..255.
MaxTidSample == 1

\* ------------------------------------------------------- program constants
ATTR_WHEEL_COLOR == 1
ATTR_LOGO_COLOR == 4

\* Byte offsets of the fields of struct rzchroma_report (all fields are u8).
OffStatus == 0
OffTransactionId == 1
OffRemainingPackets == 2
OffProtocolType == 3
OffArgsLen == 4
OffCmdClass == 5
OffCmdId == 6
OffArgs == 7
OffCrc == 87
OffReserved == 88
\* sizeof(struct rzchroma_report)
ReportSize == 89

\* errno values used by write_attr
EINVAL == 22
ENOMEM == 12
EIO == 5

\* ------------------------------------------------------------ input domains
\* Threads that may be inside write_attr at the same time.
Writers == {1, 2}

\* The sysfs files declared with DEVICE_ATTR.
LogoFile == "logo_color"
WheelFile == "wheel_color"
AttrFiles == {LogoFile, WheelFile}

\* Buffers a user may write to an attribute file: count is Len(buf).
Bufs == { <<16, 32, 48>>, <<255, 0, 128>>, <<16, 32>>, <<16, 32, 48, 64>> }

\* Values get_random_bytes may store in transaction_id (samples of 0..255).
TidVals == {(165 * k) % 256 : k \in 0 .. MaxTidSample}

\* Results of usb_control_msg: a negative errno (-ETIMEDOUT) or the number
\* of bytes transferred.
RcVals == {0 - 110, 0, 88, 89}

\* Results of hid_parse / hid_hw_start / hid_hw_open: 0 or a negative errno.
HidRcVals == {0, 0 - 19}

\* ------------------------------------------------------------------- state
VARIABLES
    probe_pc,      \* position of the HID core in probe / remove for the device
    probe_rc,      \* value returned by rzchroma_probe (0 until it returns)
    files,         \* sysfs attribute files that exist on the device
    hw,            \* state of the underlying HID hardware
    autosuspend_disabled, \* usb_disable_autosuspend has run in probe
    pc,            \* per writer: position inside write_attr
    w_file,        \* per writer: the attribute file written ("" when idle)
    w_attr,        \* per writer: attr_id argument
    w_buf,         \* per writer: buf argument (count = Len)
    w_heap,        \* per writer: "none" (NULL), "live" (allocated) or "freed"
    w_report,      \* per writer: the bytes of the heap report
    w_rc,          \* per writer: result of usb_control_msg
    w_ret,         \* per writer: value returned by write_attr
    w_allocs,      \* per writer: successful kzalloc calls in this call
    w_frees,       \* per writer: kfree calls in this call
    w_xfers,       \* per writer: usb_control_msg calls in this call
    crc_phase,     \* SpecCrc: "base" or "mutated"
    crc_data,      \* SpecCrc: a report
    crc_mut,       \* SpecCrc: the same report with one byte replaced
    crc_idx,       \* SpecCrc: index of the replaced byte
    crc_out,       \* SpecCrc: report_crc of crc_data
    crc_mut_out    \* SpecCrc: report_crc of crc_mut

drv_vars == <<probe_pc, probe_rc, files, hw, autosuspend_disabled>>
w_vars == <<pc, w_file, w_attr, w_buf, w_heap, w_report, w_rc, w_ret, w_allocs, w_frees, w_xfers>>
crc_vars == <<crc_phase, crc_data, crc_mut, crc_idx, crc_out, crc_mut_out>>
vars == <<drv_vars, w_vars, crc_vars>>

\* ------------------------------------------------------------ report codec
\* Bitwise exclusive or of two naturals.
RECURSIVE Xor(_, _)
Xor(a, b) ==
    IF a = 0 THEN b
    ELSE IF b = 0 THEN a
    ELSE (((a % 2) + (b % 2)) % 2) + 2 * Xor(a \div 2, b \div 2)

\* Line 61, the test i < count - 2: count is a size_t, so for count < 2 the
\* bound count - 2 wraps to 2^64 - 2 + count, which is above every u8 i.
LoopGuard(i, count) == IF count < 2 THEN TRUE ELSE i < count - 2

\* The test holds for every value of the u8 counter i (count < 2, or
\* count - 2 above 255): i wraps from 255 to 0 and the loop never ends.
NeverReturns(count) == count < 2 \/ count - 2 > 255

\* The outcome of a call that does not return.
NO_RETURN == "does not return"

\* The loop of report_crc: u8 i, u8 crc; crc ^= data[i] keeps the low 8 bits.
\* data holds at least count - 2 bytes.
\* At most n iterations of the loop from (i, crc): the pair it reaches.
\* (crc is a u8: the range test evaluates the accumulator at every step.)
RECURSIVE crc_steps(_, _, _, _, _)
crc_steps(data, count, i, crc, n) ==
    IF crc \in 0 .. 255 /\ n > 0 /\ LoopGuard(i, count)
    THEN crc_steps(data, count, (i + 1) % 256, Xor(crc, data[i] % 256) % 256, n - 1)
    ELSE <<i, crc>>

\* The whole loop, run sixteen iterations at a time to keep evaluation shallow.
RECURSIVE crc_loop(_, _, _, _)
crc_loop(data, count, i, crc) ==
    IF NeverReturns(count) THEN NO_RETURN
    ELSE IF crc \in 0 .. 255 /\ LoopGuard(i, count)
    THEN LET s == crc_steps(data, count, i, crc, 16)
         IN  crc_loop(data, count, s[1], s[2])
    ELSE crc

report_crc_from1(data, count) == crc_loop(data, count, 1, 0)

report_crc_to_end(data, count) == crc_loop(data, count + 1, 2, 0)

report_crc(data, count) == crc_loop(data, count, 2, 0)

\* kzalloc: a zero-filled struct rzchroma_report.
ZeroReport == [i \in 0 .. ReportSize - 1 |-> 0]

\* Store to a u8 field.
SetField(r, off, v) == [r EXCEPT ![off] = v % 256]

\* Lines 100-111 with args[0] and args[1] exchanged.
FillReportSwapped(attr_id, buf, tid) ==
    LET r1 == SetField(ZeroReport, OffCmdClass, 3)
        r2 == SetField(r1, OffCmdId, 1)
        r3 == SetField(r2, OffTransactionId, tid)
        r4 == SetField(r3, OffArgsLen, 5)
        r5 == SetField(r4, OffArgs + 0, attr_id)
        r6 == SetField(r5, OffArgs + 1, 1)
        r7 == SetField(r6, OffArgs + 2, buf[1])
        r8 == SetField(r7, OffArgs + 3, buf[2])
    IN  SetField(r8, OffArgs + 4, buf[3])

\* Lines 100-111 of write_attr, in program order (buf is 1-indexed here).
FillReport(attr_id, buf, tid) ==
    LET r1 == SetField(ZeroReport, OffCmdClass, 3)
        r2 == SetField(r1, OffCmdId, 1)
        r3 == SetField(r2, OffTransactionId, tid)
        r4 == SetField(r3, OffArgsLen, 5)
        r5 == SetField(r4, OffArgs + 0, 1)
        r6 == SetField(r5, OffArgs + 1, attr_id)
        r7 == SetField(r6, OffArgs + 2, buf[1])
        r8 == SetField(r7, OffArgs + 3, buf[2])
    IN  SetField(r8, OffArgs + 4, buf[3])

\* The checksum taken before the colour bytes are stored.
BuildReportEarlyCrc(attr_id, buf, tid) ==
    LET r == FillReport(attr_id, <<0, 0, 0>>, tid)
        c == report_crc(r, ReportSize)
    IN  SetField(FillReport(attr_id, buf, tid), OffCrc, c)

\* Lines 100-113: the filled report with its checksum.
BuildReport(attr_id, buf, tid) ==
    LET r == FillReport(attr_id, buf, tid)
    IN  SetField(r, OffCrc, report_crc(r, ReportSize))

\* ------------------------------------------------------------ write_attr
\* The store callbacks with the two LED ids exchanged.
StoreAttrIdSwapped(file) ==
    IF file = LogoFile THEN ATTR_WHEEL_COLOR ELSE ATTR_LOGO_COLOR

\* The store callback of each file passes its LED id to write_attr.
StoreAttrId(file) ==
    IF file = LogoFile THEN ATTR_LOGO_COLOR ELSE ATTR_WHEEL_COLOR

\* The length test accepting every buffer of 3 bytes or more.
BadCountShort(count) == count < 3

\* Line 86: the test that rejects a write.
BadCount(count) == count # 3

\* Lines 131-136 with a short transfer reported as its byte count.
ReturnValuePartial(rc, count) ==
    IF rc # ReportSize
    THEN rc
    ELSE count

\* Lines 131-136: the value write_attr returns after the transfer.  rc is an
\* int compared with a size_t: a negative rc converts to a value above 89.
ReturnValue(rc, count) ==
    IF rc # ReportSize
    THEN (IF rc < 0 THEN rc ELSE 0 - EIO)
    ELSE count

\* Lines 86-87: a write whose length is not 3 returns -EINVAL at once.
write_attr_einval(p) ==
    /\ pc[p] = "idle"
    /\ \E f \in files, b \in Bufs :
        /\ BadCount(Len(b))
        /\ w_file' = [w_file EXCEPT ![p] = f]
        /\ w_attr' = [w_attr EXCEPT ![p] = StoreAttrId(f)]
        /\ w_buf' = [w_buf EXCEPT ![p] = b]
    /\ w_ret' = [w_ret EXCEPT ![p] = 0 - EINVAL]
    /\ pc' = [pc EXCEPT ![p] = "done"]
    /\ UNCHANGED <<w_heap, w_report, w_rc, w_allocs, w_frees, w_xfers>>
    /\ UNCHANGED <<drv_vars, crc_vars>>

\* Lines 95-97: kzalloc returns NULL, write_attr returns -ENOMEM.
write_attr_enomem(p) ==
    /\ pc[p] = "idle"
    /\ \E f \in files, b \in Bufs :
        /\ ~BadCount(Len(b))
        /\ w_file' = [w_file EXCEPT ![p] = f]
        /\ w_attr' = [w_attr EXCEPT ![p] = StoreAttrId(f)]
        /\ w_buf' = [w_buf EXCEPT ![p] = b]
    /\ w_ret' = [w_ret EXCEPT ![p] = 0 - ENOMEM]
    /\ pc' = [pc EXCEPT ![p] = "done"]
    /\ UNCHANGED <<w_heap, w_report, w_rc, w_allocs, w_frees, w_xfers>>
    /\ UNCHANGED <<drv_vars, crc_vars>>

\* Lines 86-113: the length is 3, kzalloc succeeds, the report is filled and
\* checksummed; the thread is about to call usb_control_msg.
write_attr_build(p) ==
    /\ pc[p] = "idle"
    /\ \E f \in files, b \in Bufs, tid \in TidVals :
        /\ ~BadCount(Len(b))
        /\ w_file' = [w_file EXCEPT ![p] = f]
        /\ w_attr' = [w_attr EXCEPT ![p] = StoreAttrId(f)]
        /\ w_buf' = [w_buf EXCEPT ![p] = b]
        /\ w_report' = [w_report EXCEPT ![p] = BuildReport(StoreAttrId(f), b, tid)]
    /\ w_heap' = [w_heap EXCEPT ![p] = "live"]
    /\ w_allocs' = [w_allocs EXCEPT ![p] = @ + 1]
    /\ pc' = [pc EXCEPT ![p] = "send"]
    /\ UNCHANGED <<w_rc, w_ret, w_frees, w_xfers>>
    /\ UNCHANGED <<drv_vars, crc_vars>>

\* The transfer resubmitted once after a failure.
write_attr_send_retry(p) ==
    /\ pc[p] = "send"
    /\ \E rc \in RcVals :
        /\ w_rc' = [w_rc EXCEPT ![p] = rc]
        /\ pc' = [pc EXCEPT ![p] =
                    IF rc # ReportSize /\ w_xfers[p] = 0 THEN "send" ELSE "free"]
    /\ w_xfers' = [w_xfers EXCEPT ![p] = @ + 1]
    /\ UNCHANGED <<w_file, w_attr, w_buf, w_heap, w_report, w_ret, w_allocs, w_frees>>
    /\ UNCHANGED <<drv_vars, crc_vars>>

\* Lines 116-126: usb_control_msg sends the report and returns rc.
write_attr_send(p) ==
    /\ pc[p] = "send"
    /\ \E rc \in RcVals : w_rc' = [w_rc EXCEPT ![p] = rc]
    /\ w_xfers' = [w_xfers EXCEPT ![p] = @ + 1]
    /\ pc' = [pc EXCEPT ![p] = "free"]
    /\ UNCHANGED <<w_file, w_attr, w_buf, w_heap, w_report, w_ret, w_allocs, w_frees>>
    /\ UNCHANGED <<drv_vars, crc_vars>>

\* The report released on the success path only.
write_attr_kfree_leak(p) ==
    /\ pc[p] = "free"
    /\ w_heap' = [w_heap EXCEPT ![p] = IF w_rc[p] = ReportSize THEN "freed" ELSE @]
    /\ w_report' = [w_report EXCEPT ![p] = IF w_rc[p] = ReportSize THEN ZeroReport ELSE @]
    /\ w_frees' = [w_frees EXCEPT ![p] = IF w_rc[p] = ReportSize THEN @ + 1 ELSE @]
    /\ pc' = [pc EXCEPT ![p] = "ret"]
    /\ UNCHANGED <<w_file, w_attr, w_buf, w_rc, w_ret, w_allocs, w_xfers>>
    /\ UNCHANGED <<drv_vars, crc_vars>>

\* Line 129: kfree(report).  The freed bytes are no longer the program's.
write_attr_kfree(p) ==
    /\ pc[p] = "free"
    /\ w_heap' = [w_heap EXCEPT ![p] = "freed"]
    /\ w_report' = [w_report EXCEPT ![p] = ZeroReport]
    /\ w_frees' = [w_frees EXCEPT ![p] = @ + 1]
    /\ pc' = [pc EXCEPT ![p] = "ret"]
    /\ UNCHANGED <<w_file, w_attr, w_buf, w_rc, w_ret, w_allocs, w_xfers>>
    /\ UNCHANGED <<drv_vars, crc_vars>>

\* Lines 131-136: write_attr returns.
write_attr_return(p) ==
    /\ pc[p] = "ret"
    /\ w_ret' = [w_ret EXCEPT ![p] = ReturnValue(w_rc[p], Len(w_buf[p]))]
    /\ pc' = [pc EXCEPT ![p] = "done"]
    /\ UNCHANGED <<w_file, w_attr, w_buf, w_heap, w_report, w_rc, w_allocs, w_frees, w_xfers>>
    /\ UNCHANGED <<drv_vars, crc_vars>>

\* The caller has the result; the thread may write again.
write_attr_exit(p) ==
    /\ pc[p] = "done"
    /\ pc' = [pc EXCEPT ![p] = "idle"]
    /\ w_file' = [w_file EXCEPT ![p] = ""]
    /\ w_attr' = [w_attr EXCEPT ![p] = 0]
    /\ w_buf' = [w_buf EXCEPT ![p] = <<>>]
    /\ w_heap' = [w_heap EXCEPT ![p] = "none"]
    /\ w_report' = [w_report EXCEPT ![p] = ZeroReport]
    /\ w_rc' = [w_rc EXCEPT ![p] = 0]
    /\ w_ret' = [w_ret EXCEPT ![p] = 0]
    /\ w_allocs' = [w_allocs EXCEPT ![p] = 0]
    /\ w_frees' = [w_frees EXCEPT ![p] = 0]
    /\ w_xfers' = [w_xfers EXCEPT ![p] = 0]
    /\ UNCHANGED <<drv_vars, crc_vars>>

\* ------------------------------------------------- rzchroma_probe / remove
\* Line 198: device_create_file(logo_color); its result is ignored.
probe_create_logo ==
    /\ probe_pc = "unbound"
    /\ \E ok \in BOOLEAN :
        files' = IF ok THEN files \cup {LogoFile} ELSE files
    /\ probe_pc' = "create_wheel"
    /\ UNCHANGED <<probe_rc, hw, autosuspend_disabled, w_vars, crc_vars>>

\* Line 199: device_create_file(wheel_color); its result is ignored.
probe_create_wheel ==
    /\ probe_pc = "create_wheel"
    /\ \E ok \in BOOLEAN :
        files' = IF ok THEN files \cup {WheelFile} ELSE files
    /\ probe_pc' = "parse"
    /\ UNCHANGED <<probe_rc, hw, autosuspend_disabled, w_vars, crc_vars>>

\* Lines 202-205: hid_parse; a nonzero result is returned from probe.
probe_hid_parse ==
    /\ probe_pc = "parse"
    /\ \E rc \in HidRcVals :
        IF rc # 0
        THEN probe_pc' = "probe_failed" /\ probe_rc' = rc /\ hw' = hw
        ELSE probe_pc' = "start" /\ probe_rc' = probe_rc /\ hw' = "parsed"
    /\ UNCHANGED <<files, autosuspend_disabled, w_vars, crc_vars>>

\* Lines 208-211: hid_hw_start; a nonzero result is returned from probe.
probe_hid_hw_start ==
    /\ probe_pc = "start"
    /\ \E rc \in HidRcVals :
        IF rc # 0
        THEN probe_pc' = "probe_failed" /\ probe_rc' = rc /\ hw' = hw
        ELSE probe_pc' = "open" /\ probe_rc' = probe_rc /\ hw' = "started"
    /\ UNCHANGED <<files, autosuspend_disabled, w_vars, crc_vars>>

\* Lines 214-217: hid_hw_open; a nonzero result is returned from probe.
probe_hid_hw_open ==
    /\ probe_pc = "open"
    /\ \E rc \in HidRcVals :
        IF rc # 0
        THEN probe_pc' = "probe_failed" /\ probe_rc' = rc /\ hw' = hw
        ELSE probe_pc' = "autosuspend" /\ probe_rc' = probe_rc /\ hw' = "open"
    /\ UNCHANGED <<files, autosuspend_disabled, w_vars, crc_vars>>

\* Lines 219-220: usb_disable_autosuspend, then probe returns 0.
probe_disable_autosuspend ==
    /\ probe_pc = "autosuspend"
    /\ autosuspend_disabled' = TRUE
    /\ probe_rc' = 0
    /\ probe_pc' = "bound"
    /\ UNCHANGED <<files, hw, w_vars, crc_vars>>

\* No thread is inside a write to file f: device_remove_file returns only
\* when the writes in progress on the file have returned.
Drained(f) == \A p \in Writers : pc[p] \in {"idle", "done"} \/ w_file[p] # f

\* Line 232: device_remove_file(logo_color).
remove_logo ==
    /\ probe_pc = "bound"
    /\ Drained(LogoFile)
    /\ files' = files \ {LogoFile}
    /\ probe_pc' = "remove_wheel"
    /\ UNCHANGED <<probe_rc, hw, autosuspend_disabled, w_vars, crc_vars>>

\* Line 233: device_remove_file(wheel_color).
remove_wheel ==
    /\ probe_pc = "remove_wheel"
    /\ Drained(WheelFile)
    /\ files' = files \ {WheelFile}
    /\ probe_pc' = "close"
    /\ UNCHANGED <<probe_rc, hw, autosuspend_disabled, w_vars, crc_vars>>

\* Line 236: hid_hw_close.
remove_hw_close ==
    /\ probe_pc = "close"
    /\ hw' = "closed"
    /\ probe_pc' = "stop"
    /\ UNCHANGED <<probe_rc, files, autosuspend_disabled, w_vars, crc_vars>>

\* Line 237: hid_hw_stop, then remove returns.
remove_hw_stop ==
    /\ probe_pc = "stop"
    /\ hw' = "stopped"
    /\ probe_pc' = "removed"
    /\ UNCHANGED <<probe_rc, files, autosuspend_disabled, w_vars, crc_vars>>

\* ------------------------------------------------------------ specification
InitDrv ==
    /\ probe_pc = "unbound"
    /\ probe_rc = 0
    /\ files = {}
    /\ hw = "none"
    /\ autosuspend_disabled = FALSE

InitWriters ==
    /\ pc = [p \in Writers |-> "idle"]
    /\ w_file = [p \in Writers |-> ""]
    /\ w_attr = [p \in Writers |-> 0]
    /\ w_buf = [p \in Writers |-> <<>>]
    /\ w_heap = [p \in Writers |-> "none"]
    /\ w_report = [p \in Writers |-> ZeroReport]
    /\ w_rc = [p \in Writers |-> 0]
    /\ w_ret = [p \in Writers |-> 0]
    /\ w_allocs = [p \in Writers |-> 0]
    /\ w_frees = [p \in Writers |-> 0]
    /\ w_xfers = [p \in Writers |-> 0]

InitCrcIdle ==
    /\ crc_phase = "off"
    /\ crc_data = ZeroReport
    /\ crc_mut = ZeroReport
    /\ crc_idx = 0
    /\ crc_out = 0
    /\ crc_mut_out = 0

Init == InitDrv /\ InitWriters /\ InitCrcIdle

Next ==
    \/ \E p \in Writers : write_attr_einval(p)
    \/ \E p \in Writers : write_attr_enomem(p)
    \/ \E p \in Writers : write_attr_build(p)
    \/ \E p \in Writers : write_attr_send(p)
    \/ \E p \in Writers : write_attr_kfree(p)
    \/ \E p \in Writers : write_attr_return(p)
    \/ \E p \in Writers : write_attr_exit(p)
    \/ probe_create_logo
    \/ probe_create_wheel
    \/ probe_hid_parse
    \/ probe_hid_hw_start
    \/ probe_hid_hw_open
    \/ probe_disable_autosuspend
    \/ remove_logo
    \/ remove_wheel
    \/ remove_hw_close
    \/ remove_hw_stop

Spec == Init /\ [][Next]_vars

\* ------------------------------------------------- report_crc on its own
\* Reports handed to report_crc: those write_attr builds and byte patterns
\* that fill every field.
SampleReports ==
    { BuildReport(StoreAttrId(f), b, t) :
        f \in AttrFiles, b \in {x \in Bufs : Len(x) = 3}, t \in TidVals }
    \cup { [i \in 0 .. ReportSize - 1 |-> (i * k + c) % 256] :
             k \in {0, 3}, c \in {0, 255} }

\* Values a byte of a report is replaced by.
ByteSamples == {0, 1, 128, 255}

InitCrc ==
    /\ InitDrv
    /\ InitWriters
    /\ crc_phase = "base"
    /\ crc_data \in SampleReports
    /\ crc_mut = ZeroReport
    /\ crc_idx = 0
    /\ crc_out = 0
    /\ crc_mut_out = 0

\* report_crc applied to the report.
crc_compute ==
    /\ crc_phase = "base"
    /\ crc_out' = report_crc(crc_data, ReportSize)
    /\ crc_phase' = "computed"
    /\ UNCHANGED <<crc_data, crc_mut, crc_idx, crc_mut_out, drv_vars, w_vars>>

\* One byte of the report replaced by a different value, and report_crc
\* applied to the result.
crc_mutate ==
    /\ crc_phase = "computed"
    /\ \E i \in 0 .. ReportSize - 1, v \in ByteSamples :
        /\ v # crc_data[i]
        /\ crc_idx' = i
        /\ crc_mut' = [crc_data EXCEPT ![i] = v]
        /\ crc_mut_out' = report_crc([crc_data EXCEPT ![i] = v], ReportSize)
    /\ crc_phase' = "mutated"
    /\ UNCHANGED <<crc_data, crc_out, drv_vars, w_vars>>

NextCrc == crc_compute \/ crc_mutate

SpecCrc == InitCrc /\ [][NextCrc]_vars

\* ------------------------------------------------------------------ claims
\* Exclusive or of the bytes r[lo] .. r[hi], by halving the range.
RECURSIVE XorBytes(_, _, _)
XorBytes(r, lo, hi) ==
    IF hi < lo THEN 0
    ELSE IF lo = hi THEN r[lo]
    ELSE Xor(XorBytes(r, lo, (lo + hi) \div 2),
             XorBytes(r, ((lo + hi) \div 2) + 1, hi))

\* A writer holds a report that it is about to hand, or has just handed, to
\* usb_control_msg.
HoldsReport(p) == pc[p] \in {"send", "free"}

\* C1: every report write_attr hands to the control transfer has status,
\* remaining_packets and protocol_type 0, args_len 5, cmd_class 3, cmd_id 1,
\* args[0..4] = [1, code, r, g, b] with code 4 for the logo file and 1 for
\* the wheel file, args[5..79] zero and reserved 0, also when calls on the
\* two files interleave.
C1_ReportLayout ==
    \A p \in Writers :
        HoldsReport(p) =>
            LET r == w_report[p]
                code == IF w_file[p] = LogoFile THEN 4 ELSE 1
            IN  /\ DOMAIN r = 0 .. 88
                /\ r[0] = 0 /\ r[2] = 0 /\ r[3] = 0
                /\ r[4] = 5 /\ r[5] = 3 /\ r[6] = 1
                /\ r[7] = 1
                /\ r[8] = code
                /\ r[9] = w_buf[p][1] /\ r[10] = w_buf[p][2] /\ r[11] = w_buf[p][3]
                /\ \A i \in 12 .. 86 : r[i] = 0
                /\ r[88] = 0

\* A logo write has been transferred while a wheel write is about to be.
C1_Witness ==
    \E p, q \in Writers :
        /\ p # q
        /\ pc[p] = "free" /\ w_file[p] = LogoFile /\ w_buf[p] = <<16, 32, 48>>
        /\ w_report[p][8] = 4
        /\ pc[q] = "send" /\ w_file[q] = WheelFile /\ w_buf[q] = <<255, 0, 128>>

\* C2: in every report write_attr transmits, byte 87 is the exclusive or of
\* bytes 2..86 of the report as it is when it is transmitted.
C2_ChecksumAtTransfer ==
    \A p \in Writers :
        HoldsReport(p) => w_report[p][87] = XorBytes(w_report[p], 2, 86)

\* A transmitted report whose checksum is not zero.
C2_Witness ==
    \E p \in Writers :
        /\ pc[p] = "free" /\ w_xfers[p] = 1
        /\ w_buf[p] = <<255, 0, 128>>
        /\ w_report[p][87] # 0

\* C3: a control transfer is issued only for a 3-byte buffer whose report
\* was allocated; a call with another length returns -EINVAL with no
\* allocation and no transfer; a call whose allocation fails returns -ENOMEM
\* with no transfer.
C3_NoTransferOnBadInput ==
    \A p \in Writers :
        /\ w_xfers[p] > 0 => Len(w_buf[p]) = 3 /\ w_allocs[p] = 1
        /\ pc[p] # "idle" /\ Len(w_buf[p]) # 3 =>
              /\ pc[p] = "done" /\ w_ret[p] = 0 - 22
              /\ w_allocs[p] = 0 /\ w_xfers[p] = 0
        /\ pc[p] = "done" /\ Len(w_buf[p]) = 3 /\ w_allocs[p] = 0 =>
              w_ret[p] = 0 - 12 /\ w_xfers[p] = 0

\* One call rejected for its 4-byte buffer, another failed in kzalloc.
C3_Witness ==
    \E p, q \in Writers :
        /\ pc[p] = "done" /\ Len(w_buf[p]) = 4 /\ w_ret[p] = 0 - 22
        /\ pc[q] = "done" /\ Len(w_buf[q]) = 3 /\ w_heap[q] = "none"
        /\ w_ret[q] = 0 - 12

\* C4: a call that made the transfer returns 3 exactly when the transfer
\* returned 89; a negative transfer result is returned unchanged; any other
\* count gives -EIO; no byte count other than 3 is ever returned.
C4_ReturnMapping ==
    \A p \in Writers :
        pc[p] = "done" /\ w_xfers[p] > 0 =>
            /\ (w_ret[p] = 3) <=> (w_rc[p] = 89)
            /\ w_rc[p] < 0 => w_ret[p] = w_rc[p]
            /\ w_rc[p] >= 0 /\ w_rc[p] # 89 => w_ret[p] = 0 - 5
            /\ w_ret[p] = 3 \/ w_ret[p] < 0

\* A short transfer of 88 bytes was returned as -EIO.
C4_Witness ==
    \E p \in Writers :
        pc[p] = "done" /\ w_xfers[p] = 1 /\ w_rc[p] = 88 /\ w_ret[p] = 0 - 5

\* Two writers hold reports for the same file and colour with different
\* transaction identifiers.
SameCommandOtherTid(p, q) ==
    /\ p # q
    /\ HoldsReport(p) /\ HoldsReport(q)
    /\ w_file[p] = w_file[q]
    /\ w_buf[p] = w_buf[q]
    /\ w_report[p][1] # w_report[q][1]

\* C5 as stated: two reports for the same target and colour that differ in
\* transaction identifier agree outside bytes 1 and 87, and their checksums
\* differ.
C5_Original ==
    \A p, q \in Writers :
        SameCommandOtherTid(p, q) =>
            /\ \A i \in (0 .. 88) \ {1, 87} : w_report[p][i] = w_report[q][i]
            /\ w_report[p][87] # w_report[q][87]

\* C5 amended: the transaction identifier (byte 1) is outside the
\* checksummed bytes 2..86, so two reports for the same target and colour
\* that differ in transaction identifier agree in every byte but byte 1,
\* the checksum included.
C5_TidOutsideChecksum ==
    \A p, q \in Writers :
        SameCommandOtherTid(p, q) =>
            \A i \in (0 .. 88) \ {1} : w_report[p][i] = w_report[q][i]

\* Two such reports are held at the same time.
C5_Witness ==
    \E p, q \in Writers :
        SameCommandOtherTid(p, q) /\ w_report[p][87] # 0

\* C6: report_crc of an 89-byte report is unchanged when byte 0, 87 or 88
\* is replaced, and changes when one byte at an index in 2..86 is replaced
\* by a different value.
C6_CrcWindow ==
    crc_phase = "mutated" =>
        /\ crc_idx \in {0, 87, 88} => crc_mut_out = crc_out
        /\ crc_idx \in 2 .. 86 => crc_mut_out # crc_out

\* The checksum slot of a report was replaced and report_crc applied.
C6_Witness ==
    /\ crc_phase = "mutated"
    /\ crc_idx = 87
    /\ crc_mut[87] # crc_data[87]
    /\ crc_out # 0

\* C7 as stated: whenever a control transfer has been issued,
\* usb_disable_autosuspend has already run for the device.
C7_AutosuspendBeforeTransfer ==
    \A p \in Writers : w_xfers[p] > 0 => autosuspend_disabled

\* C8: a call that passed validation and obtained its report issues exactly
\* one control transfer, whatever the transfer returned.
C8_ExactlyOneTransfer ==
    \A p \in Writers :
        /\ w_xfers[p] <= 1
        /\ pc[p] \in {"free", "ret", "done"} /\ w_allocs[p] = 1 => w_xfers[p] = 1
        /\ pc[p] = "send" => w_xfers[p] = 0

\* A call whose transfer timed out has returned after that one transfer.
C8_Witness ==
    \E p \in Writers :
        pc[p] = "done" /\ w_rc[p] = 0 - 110 /\ w_ret[p] = 0 - 110 /\ w_xfers[p] = 1

\* C9: a report buffer is live only between its allocation and the kfree
\* that follows the transfer; it is released exactly once before write_attr
\* returns, on every path, and never transmitted after release; when every
\* call has returned no report buffer is live.
C9_BufferLifetime ==
    /\ \A p \in Writers :
        /\ w_allocs[p] <= 1 /\ w_frees[p] <= w_allocs[p]
        /\ (w_heap[p] = "live") <=> (pc[p] \in {"send", "free"})
        /\ w_xfers[p] > w_frees[p] => pc[p] = "free" /\ w_heap[p] = "live"
        /\ w_frees[p] = 1 => w_xfers[p] = 1
        /\ pc[p] \in {"ret", "done"} /\ w_allocs[p] = 1 =>
              w_frees[p] = 1 /\ w_heap[p] = "freed"
    /\ (\A p \in Writers : pc[p] \in {"idle", "done"}) =>
          \A p \in Writers : w_heap[p] # "live"

\* A call whose transfer failed has returned with its report released.
C9_Witness ==
    \E p \in Writers :
        /\ pc[p] = "done" /\ w_rc[p] = 0 /\ w_ret[p] = 0 - 5
        /\ w_frees[p] = 1 /\ w_heap[p] = "freed"

\* C10 as stated: after a failed probe no attribute file exists and no
\* transfer is issued; in remove both files are gone before the hardware is
\* closed and stopped.
C10_FilesOnlyWhenBound ==
    /\ probe_pc = "probe_failed" => files = {}
    /\ probe_pc = "probe_failed" => \A p \in Writers : pc[p] # "free"
    /\ probe_pc \in {"close", "stop", "removed"} => files = {}

====
